---- MODULE Spec2Model ----
(***************************************************************************)
(* A model of awsm's launch-configuration rotation, of its cross-region    *)
(* fan-out readers and of its prompting / dry-run operations, written from *)
(* aws/launchconfigurations.go, aws/autoscalegroups.go, the alarms file    *)
(* and the addresses file.                                                 *)
(*                                                                         *)
(* The cloud is the environment: what a Describe call returns and whether  *)
(* a call fails are inputs, drawn from bounded sets.  Every call the code  *)
(* issues is recorded, so that "no call was issued" and "one call per      *)
(* resource" are properties of the state.                                  *)
(***************************************************************************)
EXTENDS Integers, Sequences, FiniteSets, TLC

VARIABLES
    \* ---- configuration and cloud ----
    cfgRetain,      \* cfg.Retain of the launch-configuration class
    dryRun,         \* the dryRun argument of the running operation
    asgs,           \* region -> the auto-scaling groups DescribeAutoScalingGroups returns
    asgFail,        \* whether GetAutoScaleGroups("") returns a non-nil error list
    lcResp,         \* region -> the answer of the by-name DescribeLaunchConfigurations
    callErr,        \* the error value a failing mutating call returns
    lcs,            \* region -> the launch configurations the cloud holds
    \* ---- RotateLaunchConfigurations ----
    rotStatus,      \* "idle" | "called" | "running" | "ok" | "error" | "panic"
    excludedConfigs,\* names locked by auto-scaling groups (the map's true keys)
    rpc,            \* region -> position of that region's goroutine
    launchConfigs,  \* region -> the goroutine's local launchConfigs slice
    ds,             \* region -> delete targets not yet processed
    errs,           \* the shared errs slice of RotateLaunchConfigurations
    errsSeen,       \* region -> the errs value an append in flight has read
    deleteCalls,    \* the DeleteLaunchConfiguration calls issued: {<<region, name>>}
    deleteFailed,   \* the DeleteLaunchConfiguration calls that returned an error
    \* ---- CreateLaunchConfigurations ----
    cpc,            \* "idle" | "regions" | "rotate" | "returned"
    cret,           \* what the last call returned
    cfgVersion,     \* cfg.Version of the launch-configuration class
    cfgRegions,     \* cfg.Regions of the launch-configuration class
    cidx,           \* index in cfg.Regions of the region the loop is at
    createCalls,    \* the CreateLaunchConfiguration calls issued: {<<region, name>>}
    \* ---- the fan-out readers: GetLaunchConfigurations, GetAutoScaleGroups, ... ----
    getKind,        \* which reader runs
    getResp,        \* region -> what the region's Describe call answers
    gmain,          \* the caller's position: "spawn" | "wait" | "returned"
    gidx,           \* index in the region list of the next goroutine to start
    gpc,            \* region -> position of that region's goroutine
    wg,             \* the WaitGroup counter
    list,           \* the shared result slice (*lcList, *asgList, ...)
    gerrs,          \* the shared errs slice
    gseen,          \* region -> the slice value an append in flight has read
    \* ---- the prompting operations of the command line ----
    opKind,         \* the operation invoked
    opForce,        \* its forceYes (UpdateAutoScaleGroups) or force (DeleteAutoScaleGroups) argument
    opRegion,       \* its region argument, "" when none is given
    matched,        \* the resources the search matches, as the listing returns them
    gatherErr,      \* whether the listing reports an error
    answer,         \* what the user answers if asked
    classRegions,   \* the regions of the class's availability zones (GetRegionMap's keys)
    classHasAlarm,  \* whether the auto-scaling class names an alarm (len(cfg.Alarms) > 0)
    opVersion,      \* the version argument of UpdateAutoScaleGroups, a string of characters
    opDomain,       \* the domain argument of CreateAddress
    alarmHasPolicy, \* whether the alarm class names a scaling policy (cfg.AlarmActions)
    opc,            \* "idle" | "start" | "prompt" | "run" | "returned"
    prompted,       \* whether terminal.PromptBool has been consulted
    opList,         \* the list the operation works on (asgList, lcList, addrList)
    oidx,           \* index in opList of the resource the loop is at
    ophase,         \* where the loop body is: "load" | "regions" | "alarms"
    oregs,          \* the regions of the class the inner loop has not visited yet
    calls,          \* the mutating calls issued, in order
    opRet,          \* what the operation returned
    \* ---- the search filter of the region readers ----
    fSearch,        \* the search term, a string as a sequence of characters
    fRows,          \* the rows marshalled from the Describe result (lc)
    fIdx,           \* index of the row the filter loop is at
    fOut,           \* what has been appended to the caller's list
    fpc,            \* "idle" | "filter" | "done"
    fCloud,         \* region -> the rows its Describe call returns, marshalled
    \* ---- shared by CreateLaunchConfigurations and the operations ----
    retErr          \* the error value returned to the caller after a failed mutating call

rotVars == <<rotStatus, excludedConfigs, rpc, launchConfigs, ds, errs, errsSeen,
             deleteCalls, deleteFailed>>
envVars == <<cfgRetain, dryRun, asgs, asgFail, lcResp, callErr, lcs>>
createVars == <<cpc, cret, cfgVersion, cfgRegions, cidx, createCalls>>
getVars == <<getKind, getResp, gmain, gidx, gpc, wg, list, gerrs, gseen>>
opInputs == <<opKind, opForce, opRegion, matched, gatherErr, answer, classRegions,
              classHasAlarm, alarmHasPolicy, opVersion, opDomain>>
opVars == <<opInputs, opc, prompted, opList, oidx, ophase, oregs, calls, opRet>>
filterVars == <<fSearch, fRows, fIdx, fOut, fpc, fCloud>>
nonRotVars == <<createVars, getVars, opVars, filterVars, retErr>>
vars == <<envVars, rotVars, createVars, getVars, opVars, filterVars, retErr>>

-----------------------------------------------------------------------------
(* Bounds *)

\* longest list a Describe call returns for one region
MaxLen == 3
\* largest retention count tried
MaxRetain == 2
\* number of CreateLaunchConfigurations calls in a run
MaxCalls == 2
\* most rows one region's Describe call returns to a fan-out reader
MaxRows == 2
\* most resources a search matches
MaxMatched == 2

\* GetRegionList(): the regions, in the order the loops spawn their goroutines
RegionList == <<"us-east-1", "us-west-2">>
Regions == { RegionList[i] : i \in 1..Len(RegionList) }
Class == "web"

\* error values: the SDK's provider-typed error (awserr.Error, with a code and
\* a message), any other error, and what errors.New(text) makes
NoError == [type |-> "nil", code |-> "", msg |-> ""]

AwsError == [type |-> "awserr", code |-> "Throttling", msg |-> "Rate exceeded"]

OtherError == [type |-> "error", code |-> "", msg |-> "connection reset"]

New(text) == [type |-> "errors.New", code |-> "", msg |-> text]

CallErrors == {AwsError, OtherError}

CurrentFromEnd(l, i) == l[Len(l) + 1 - i]

\* for _, x := range list: the i-th pass of a loop takes the i-th element
Current(l, i) == l[i]

PassesThrough(err) == err

\* if awsErr, ok := err.(awserr.Error); ok { return errors.New(awsErr.Message()) }
\* return err
Unwrap(err) == IF err.type = "awserr" THEN New(err.msg) ELSE err

-----------------------------------------------------------------------------
(* Launch configurations *)

\* fmt.Sprintf("%s-v%d", class, version)
LaunchConfigurationName(class, version) == class \o "-v" \o ToString(version)

\* LaunchConfig.Marshal: the fields rotation reads.  Version v of the class is
\* the v-th one created, so its creation time is v.
LaunchConfig(region, version) ==
    [name |-> LaunchConfigurationName(Class, version), ctime |-> version, region |-> region]

\* lc[i].Marshal(config, region, ...) over the rows of a Describe result
Rows(r, s) == [i \in 1..Len(s) |-> LaunchConfig(r, s[i])]

\* LaunchConfigs.Less: l[i].CreationTime.After(l[j].CreationTime)
Less(a, b) == a.ctime > b.ctime

RECURSIVE SortLaunchConfigs(_)
\* sort.Sort(launchConfigs): the order Less gives (creation times are distinct)
SortLaunchConfigs(l) ==
    IF l = <<>> THEN <<>>
    ELSE LET i == CHOOSE i \in 1..Len(l) : \A j \in 1..Len(l) : j # i => Less(l[i], l[j])
         IN  <<l[i]>> \o SortLaunchConfigs(SubSeq(l, 1, i - 1) \o SubSeq(l, i + 1, Len(l)))

\* AutoScaleGroups.LockedLaunchConfigurations: names[asg.LaunchConfig] = true
LockedLaunchConfigurations(asgList) == { asgList[i].launchConfig : i \in 1..Len(asgList) }

RECURSIVE Flatten(_, _)
Flatten(f, rs) ==
    IF rs = {} THEN <<>>
    ELSE LET r == CHOOSE r \in rs : TRUE IN f[r] \o Flatten(f, rs \ {r})

-----------------------------------------------------------------------------
(* The exclusion loop of RotateLaunchConfigurations                        *)
(*   for i, lc := range launchConfigs {                                    *)
(*     if excludedConfigs[lc.Name] {                                       *)
(*       launchConfigs = append(launchConfigs[:i], launchConfigs[i+1:]...) *)
(* range evaluates the slice once: it runs over the original length and    *)
(* reads the backing array, which the append shifts in place.  arr is the  *)
(* backing array, ln the current length of launchConfigs, i the 1-based    *)
(* index.  launchConfigs[i+1:] faults when i+1 exceeds the current length. *)

ShiftLeft(arr, ln, i) ==
    [k \in 1..Len(arr) |-> IF k >= i /\ k < ln THEN arr[k + 1] ELSE arr[k]]

RECURSIVE ExcludeLoop(_, _, _, _)
ExcludeLoop(arr, ln, i, excluded) ==
    IF i > Len(arr) THEN [list |-> SubSeq(arr, 1, ln), panic |-> FALSE]
    ELSE IF arr[i].name \in excluded
         THEN IF i > ln THEN [list |-> SubSeq(arr, 1, ln), panic |-> TRUE]
              ELSE ExcludeLoop(ShiftLeft(arr, ln, i), ln - 1, i + 1, excluded)
         ELSE ExcludeLoop(arr, ln, i + 1, excluded)

ExcludeLockedSkipsNone(l, excluded) ==
    [list |-> SelectSeq(l, LAMBDA lc : lc.name \notin excluded), panic |-> FALSE]

ExcludeLocked(l, excluded) == ExcludeLoop(l, Len(l), 1, excluded)

\* if len(launchConfigs) > cfg.Retain { sort; ds := launchConfigs[cfg.Retain:] }
DeleteTargets(l, retain) ==
    IF Len(l) > retain THEN SubSeq(SortLaunchConfigs(l), retain + 1, Len(l)) ELSE <<>>

-----------------------------------------------------------------------------
(* RotateLaunchConfigurations *)

\* autoScaleGroups, err := GetAutoScaleGroups(""); excludedConfigs; one goroutine per region
RotateStart ==
    /\ rotStatus = "called"
    /\ IF asgFail
       THEN /\ rotStatus' = "error"
            /\ UNCHANGED <<excludedConfigs, rpc>>
       ELSE /\ rotStatus' = "running"
            /\ excludedConfigs' = LockedLaunchConfigurations(Flatten(asgs, Regions))
            /\ rpc' = [r \in Regions |-> "lookup"]
    /\ UNCHANGED <<envVars, launchConfigs, ds, errs, errsSeen, deleteCalls, deleteFailed>>
    /\ UNCHANGED nonRotVars

\* launchConfigs, err := GetLaunchConfigurationsByName(region, class), the answer an input
RotateLookupResp(r) ==
    /\ rotStatus = "running"
    /\ rpc[r] = "lookup"
    /\ launchConfigs' = [launchConfigs EXCEPT ![r] = IF lcResp[r].err THEN <<>> ELSE Rows(r, lcResp[r].rows)]
    /\ rpc' = [rpc EXCEPT ![r] = IF lcResp[r].err THEN "errRead" ELSE "exclude"]
    /\ UNCHANGED <<envVars, rotStatus, excludedConfigs, ds, errs, errsSeen, deleteCalls, deleteFailed>>
    /\ UNCHANGED nonRotVars

\* errs = append(errs, err): the read of the shared slice ...
RotateErrRead(r) ==
    /\ rotStatus = "running"
    /\ rpc[r] = "errRead"
    /\ errsSeen' = [errsSeen EXCEPT ![r] = errs]
    /\ rpc' = [rpc EXCEPT ![r] = "errWrite"]
    /\ UNCHANGED <<envVars, rotStatus, excludedConfigs, launchConfigs, ds, errs, deleteCalls, deleteFailed>>
    /\ UNCHANGED nonRotVars

\* ... and its write, with no lock in between
RotateErrWrite(r) ==
    /\ rotStatus = "running"
    /\ rpc[r] = "errWrite"
    /\ errs' = Append(errsSeen[r], r)
    /\ rpc' = [rpc EXCEPT ![r] = "exclude"]
    /\ UNCHANGED <<envVars, rotStatus, excludedConfigs, launchConfigs, ds, errsSeen, deleteCalls, deleteFailed>>
    /\ UNCHANGED nonRotVars

\* the exclusion loop, then the retention test, the sort and the slice
RotateExclude(r) ==
    /\ rotStatus = "running"
    /\ rpc[r] = "exclude"
    /\ LET res == ExcludeLocked(launchConfigs[r], excludedConfigs)
       IN  IF res.panic
           THEN /\ rotStatus' = "panic"
                /\ UNCHANGED <<launchConfigs, ds, rpc>>
           ELSE /\ launchConfigs' = [launchConfigs EXCEPT ![r] = res.list]
                /\ ds' = [ds EXCEPT ![r] = DeleteTargets(res.list, cfgRetain)]
                /\ rpc' = [rpc EXCEPT ![r] = "delete"]
                /\ UNCHANGED rotStatus
    /\ UNCHANGED <<envVars, excludedConfigs, errs, errsSeen, deleteCalls, deleteFailed>>
    /\ UNCHANGED nonRotVars

\* whether deleteLaunchConfigurations issues the call: if !dryRun
IssuesDeleteAlways(dry) == TRUE

IssuesDelete(dry) == ~dry

\* deleteLaunchConfigurations(&ds, dryRun): one pass of its loop; the first
\* failing call ends the loop, and the goroutine drops the returned error
RotateDelete(r) ==
    /\ rotStatus = "running"
    /\ rpc[r] = "delete"
    /\ ds[r] # <<>>
    /\ LET lc == Head(ds[r])
       IN  IF IssuesDelete(dryRun)
           THEN /\ deleteCalls' = deleteCalls \cup {<<lc.region, lc.name>>}
                /\ \E ok \in BOOLEAN :
                      IF ok
                      THEN /\ lcs' = [lcs EXCEPT ![lc.region] =
                                        SelectSeq(@, LAMBDA x : x.name # lc.name)]
                           /\ ds' = [ds EXCEPT ![r] = Tail(@)]
                           /\ UNCHANGED deleteFailed
                      ELSE /\ deleteFailed' = deleteFailed \cup {<<lc.region, lc.name>>}
                           /\ ds' = [ds EXCEPT ![r] = <<>>]
                           /\ UNCHANGED lcs
           ELSE /\ ds' = [ds EXCEPT ![r] = Tail(@)]
                /\ UNCHANGED <<deleteCalls, deleteFailed, lcs>>
    /\ UNCHANGED <<cfgRetain, dryRun, asgs, asgFail, lcResp, callErr, rotStatus, excludedConfigs,
                   rpc, launchConfigs, errs, errsSeen>>
    /\ UNCHANGED nonRotVars

\* defer wg.Done()
RotateTaskDone(r) ==
    /\ rotStatus = "running"
    /\ rpc[r] = "delete"
    /\ ds[r] = <<>>
    /\ rpc' = [rpc EXCEPT ![r] = "done"]
    /\ UNCHANGED <<envVars, rotStatus, excludedConfigs, launchConfigs, ds, errs, errsSeen,
                   deleteCalls, deleteFailed>>
    /\ UNCHANGED nonRotVars

ErrsSeveral(e) == Len(e) > 1

\* if errs != nil: the slice is nil unless an append has written it
ErrsNotNil(e) == e # <<>>

\* wg.Wait(); if errs != nil { return error }; return nil
RotateReturn ==
    /\ rotStatus = "running"
    /\ \A r \in Regions : rpc[r] = "done"
    /\ rotStatus' = IF ErrsNotNil(errs) THEN "error" ELSE "ok"
    /\ UNCHANGED <<envVars, excludedConfigs, rpc, launchConfigs, ds, errs, errsSeen,
                   deleteCalls, deleteFailed>>
    /\ UNCHANGED nonRotVars

-----------------------------------------------------------------------------
(* Inputs of a rotation *)

\* the lists of length k a region can return: every order of versions 1..k
Orders(k) == { s \in [1..k -> 1..k] : \A i, j \in 1..k : s[i] = s[j] => i = j }

\* the lists the first region can return: versions 1..k in every order, k <= MaxLen
Versions == UNION { Orders(k) : k \in 0..MaxLen }

LookupFailed == [err |-> TRUE, rows |-> <<>>]

Answer(s) == [err |-> FALSE, rows |-> s]

\* what the by-name lookups can answer: an error or a list in the first region,
\* and in every other region an error or a prefix of the first region's versions
\* (the class is created in its regions one after the other, under one name)
Responses ==
    UNION { { f \in [Regions -> {LookupFailed} \cup { Answer(SubSeq(s, 1, k)) : k \in 0..Len(s) }] :
                f[RegionList[1]] \in {LookupFailed, Answer(s)} } : s \in Versions }

AutoScaleGroup(region, version) ==
    [name |-> "asg-" \o ToString(version), region |-> region, class |-> Class,
     launchConfig |-> LaunchConfigurationName(Class, version)]

RECURSIVE SetToSeq(_)
SetToSeq(S) ==
    IF S = {} THEN <<>>
    ELSE LET x == CHOOSE x \in S : TRUE IN <<x>> \o SetToSeq(S \ {x})

RotIdle ==
    /\ excludedConfigs = {}
    /\ rpc = [r \in Regions |-> "idle"]
    /\ launchConfigs = [r \in Regions |-> <<>>]
    /\ ds = [r \in Regions |-> <<>>]
    /\ errs = <<>>
    /\ errsSeen = [r \in Regions |-> <<>>]
    /\ deleteCalls = {}
    /\ deleteFailed = {}

OpFresh ==
    /\ prompted = FALSE
    /\ opList = <<>>
    /\ oidx = 1
    /\ ophase = "load"
    /\ oregs = {}
    /\ calls = <<>>
    /\ opRet = "none"

OpIdle ==
    /\ opKind = "none"
    /\ opForce = FALSE
    /\ opRegion = ""
    /\ matched = <<>>
    /\ gatherErr = FALSE
    /\ answer = FALSE
    /\ classRegions = {}
    /\ classHasAlarm = FALSE
    /\ alarmHasPolicy = FALSE
    /\ opVersion = <<>>
    /\ opDomain = ""
    /\ opc = "idle"
    /\ OpFresh

FilterIdle ==
    /\ fSearch = <<>>
    /\ fRows = <<>>
    /\ fIdx = 1
    /\ fOut = <<>>
    /\ fpc = "idle"
    /\ fCloud = [r \in Regions |-> <<>>]

GetIdle ==
    /\ getKind = "none"
    /\ getResp = [r \in Regions |-> [err |-> FALSE, n |-> 0]]
    /\ gmain = "idle"
    /\ gidx = 1
    /\ gpc = [r \in Regions |-> "unstarted"]
    /\ wg = 0
    /\ list = <<>>
    /\ gerrs = <<>>
    /\ gseen = [r \in Regions |-> <<>>]

CreateIdle ==
    /\ cpc = "idle"
    /\ cret = "none"
    /\ cfgVersion = 0
    /\ cidx = 1
    /\ createCalls = {}

InitRotate ==
    /\ callErr = NoError
    /\ retErr = NoError
    /\ cfgRetain \in 0..MaxRetain
    /\ dryRun \in BOOLEAN
    /\ asgFail \in BOOLEAN
    /\ \E S \in SUBSET (1..MaxLen) :
          asgs = [r \in Regions |->
                    IF r = RegionList[1] THEN SetToSeq({AutoScaleGroup(r, v) : v \in S}) ELSE <<>>]
    /\ lcResp \in Responses
    /\ lcs = [r \in Regions |-> <<>>]
    /\ rotStatus = "called"
    /\ RotIdle
    /\ CreateIdle
    /\ cfgRegions = RegionList
    /\ GetIdle
    /\ OpIdle
    /\ FilterIdle

NextRotate ==
    \/ RotateStart
    \/ \E r \in Regions : RotateLookupResp(r)
    \/ \E r \in Regions : RotateErrRead(r)
    \/ \E r \in Regions : RotateErrWrite(r)
    \/ \E r \in Regions : RotateExclude(r)
    \/ \E r \in Regions : RotateDelete(r)
    \/ \E r \in Regions : RotateTaskDone(r)
    \/ RotateReturn

SpecRotate == InitRotate /\ [][NextRotate]_vars

-----------------------------------------------------------------------------
(* CreateLaunchConfigurations *)

\* ValidRegion(region): the region is one of GetRegionList()
ValidRegion(region) == region \in Regions

\* cfg.Increment(class): the next version of the class
Increment(version) == version + 1

\* GetLaunchConfigurationsByName(region, name): DescribeLaunchConfigurations with
\* LaunchConfigurationNames = [name] answers the configurations of that very name
GetLaunchConfigurationsByName(region, name) ==
    SelectSeq(lcs[region], LAMBDA lc : lc.name = name)

\* how the by-name lookup goes: the Describe call fails, or it answers and
\* the listing of the security groups that follows fails, or all answer
Lookups == {"describeFails", "groupsFail", "ok"}

\* the err GetLaunchConfigurationsByName returns is not nil:
\*   if err != nil || len(result.LaunchConfigurations) == 0 { return LaunchConfigs{}, err }
\* hands back the Describe call's err, nil for an empty answer; after that
\* err is the one of GetRegionSecurityGroups
ByNameError(region, name, lookup) ==
    \/ lookup = "describeFails"
    \/ Len(GetLaunchConfigurationsByName(region, name)) > 0 /\ lookup = "groupsFail"

\* name := class-vN; "" if the lookup returned an error, name otherwise
GetLaunchConfigurationName(region, class, version, lookup) ==
    IF ByNameError(region, LaunchConfigurationName(class, version), lookup)
    THEN ""
    ELSE LaunchConfigurationName(class, version)

\* launchConfigurationCfg.Version as the class configuration stores it
StoredVersion == 1

DigitValue(c) ==
    CASE c = "0" -> 0 [] c = "1" -> 1 [] c = "2" -> 2 [] c = "3" -> 3 [] c = "4" -> 4
      [] c = "5" -> 5 [] c = "6" -> 6 [] c = "7" -> 7 [] c = "8" -> 8 [] c = "9" -> 9
      [] OTHER -> -1

RECURSIVE DigitsValue(_)
DigitsValue(s) ==
    IF Len(s) = 0 THEN 0
    ELSE 10 * DigitsValue(SubSeq(s, 1, Len(s) - 1)) + DigitValue(s[Len(s)])

\* strconv.Atoi: an optional sign, then one or more decimal digits
Atoi(s) ==
    LET signed == Len(s) > 0 /\ s[1] \in {"+", "-"}
        digits == IF signed THEN Tail(s) ELSE s
        ok == Len(digits) > 0 /\ \A i \in 1..Len(digits) : DigitValue(digits[i]) >= 0
    IN  [ok |-> ok,
         val |-> IF ~ok THEN 0
                 ELSE IF signed /\ s[1] = "-" THEN 0 - DigitsValue(digits)
                 ELSE DigitsValue(digits)]

UpdateVersionIgnoresArgument(version) == StoredVersion

\* if version != "" { launchConfigurationCfg.Version = lcVer }
UpdateVersion(version) == IF version # <<>> THEN Atoi(version).val ELSE StoredVersion

\* whether the loop issues svc.CreateLaunchConfiguration(params): it always does
IssuesCreate(dry) == TRUE

\* the class configurations are loaded, the version is incremented, the IAM
\* user is looked up; a failing load returns before the increment
CreateStart(dry) ==
    /\ cpc \in {"idle", "returned"}
    /\ opc = "idle"
    /\ cfgVersion < MaxCalls
    /\ dryRun' = dry
    /\ \E outcome \in {"loadFails", "iamFails", "ok"} :
          /\ cfgVersion' = IF outcome = "loadFails" THEN cfgVersion ELSE Increment(cfgVersion)
          /\ cpc' = IF outcome = "ok" THEN "regions" ELSE "returned"
          /\ cret' = IF outcome = "ok" THEN "none" ELSE "LoadError"
    /\ cidx' = 1
    /\ UNCHANGED <<cfgRetain, asgs, asgFail, lcResp, callErr, lcs, cfgRegions, createCalls, rotVars>>
    /\ retErr' = NoError
    /\ UNCHANGED <<getVars, opVars, filterVars>>

\* one pass of "for _, region := range cfg.Regions": the region is validated, the
\* snapshot, image, key pair, VPC and security groups are looked up, and the
\* launch configuration is created
CreateRegion ==
    /\ cpc = "regions"
    /\ cidx <= Len(cfgRegions)
    /\ LET region == Current(cfgRegions, cidx)
           name == LaunchConfigurationName(Class, cfgVersion)
       IN  IF ~ValidRegion(region)
           THEN /\ cpc' = "returned"
                /\ cret' = "NotValid"
                /\ UNCHANGED <<cidx, createCalls, lcs, retErr>>
           ELSE \E outcome \in {"lookupFails", "createFails", "created"} :
                  /\ createCalls' = IF outcome # "lookupFails" /\ IssuesCreate(dryRun)
                                    THEN createCalls \cup {<<region, name>>}
                                    ELSE createCalls
                  /\ lcs' = IF outcome = "created" /\ IssuesCreate(dryRun)
                            THEN [lcs EXCEPT ![region] = Append(@, LaunchConfig(region, cfgVersion))]
                            ELSE lcs
                  /\ cidx' = IF outcome = "created" THEN cidx + 1 ELSE cidx
                  /\ cpc' = IF outcome = "created" THEN "regions" ELSE "returned"
                  /\ cret' = CASE outcome = "created" -> "none"
                                [] outcome = "lookupFails" -> "LookupError"
                                [] outcome = "createFails" -> "CreateError"
                  /\ retErr' = IF outcome = "createFails" THEN Unwrap(callErr) ELSE retErr
    /\ UNCHANGED <<cfgRetain, dryRun, asgs, asgFail, lcResp, callErr, cfgVersion, cfgRegions, rotVars>>
    /\ UNCHANGED <<getVars, opVars, filterVars>>

\* whether the older launch configurations are rotated out: if cfg.Retain > 1
Rotates(retain) == retain > 1

\* after the loop: RotateLaunchConfigurations(class, cfg, dryRun) is called, or nil returned
CreateAfterLoop ==
    /\ cpc = "regions"
    /\ cidx > Len(cfgRegions)
    /\ IF Rotates(cfgRetain)
       THEN /\ cpc' = "rotate"
            /\ rotStatus' = "called"
            /\ excludedConfigs' = {}
            /\ rpc' = [r \in Regions |-> "idle"]
            /\ launchConfigs' = [r \in Regions |-> <<>>]
            /\ ds' = [r \in Regions |-> <<>>]
            /\ errs' = <<>>
            /\ errsSeen' = [r \in Regions |-> <<>>]
            /\ UNCHANGED cret
       ELSE /\ cpc' = "returned"
            /\ cret' = "ok"
            /\ UNCHANGED <<rotStatus, excludedConfigs, rpc, launchConfigs, ds, errs, errsSeen>>
    /\ UNCHANGED <<envVars, cfgVersion, cfgRegions, cidx, createCalls, deleteCalls, deleteFailed>>
    /\ UNCHANGED <<getVars, opVars, filterVars, retErr>>

\* err := RotateLaunchConfigurations(...); if err != nil { return err }; return nil
CreateReturn ==
    /\ cpc = "rotate"
    /\ rotStatus \in {"ok", "error"}
    /\ cpc' = "returned"
    /\ cret' = IF rotStatus = "error" THEN "RotateError" ELSE "ok"
    /\ UNCHANGED <<envVars, rotVars, cfgVersion, cfgRegions, cidx, createCalls>>
    /\ UNCHANGED <<getVars, opVars, filterVars, retErr>>

\* launchConfigs, err := GetLaunchConfigurationsByName(region, class), asked of the cloud
RotateLookup(r) ==
    /\ rotStatus = "running"
    /\ rpc[r] = "lookup"
    /\ \E failed \in BOOLEAN :
          /\ launchConfigs' = [launchConfigs EXCEPT ![r] =
                                 IF failed THEN <<>> ELSE GetLaunchConfigurationsByName(r, Class)]
          /\ rpc' = [rpc EXCEPT ![r] = IF failed THEN "errRead" ELSE "exclude"]
    /\ UNCHANGED <<envVars, rotStatus, excludedConfigs, ds, errs, errsSeen, deleteCalls, deleteFailed>>
    /\ UNCHANGED nonRotVars

\* cfg.Regions: one or two regions, an invalid one possibly among them
RegionLists ==
    LET R == Regions \cup {"mars-1"}
    IN  { <<a>> : a \in R } \cup { s \in R \X R : s[1] # s[2] }

\* a group whose launch-configuration field is lcName
AutoScaleGroupUsing(region, lcName) ==
    [name |-> "asg-" \o lcName, region |-> region, class |-> Class, launchConfig |-> lcName]

InitCreate ==
    /\ callErr \in CallErrors
    /\ retErr = NoError
    /\ cfgRetain \in 0..MaxRetain
    /\ dryRun = FALSE
    /\ asgFail \in BOOLEAN
    /\ \E S \in SUBSET {Class, LaunchConfigurationName(Class, 1)} :
          asgs = [r \in Regions |->
                    IF r = RegionList[1] THEN SetToSeq({AutoScaleGroupUsing(r, n) : n \in S}) ELSE <<>>]
    /\ lcResp = [r \in Regions |-> LookupFailed]
    \* a region may already hold a configuration named like the class itself
    /\ lcs \in [Regions -> {<<>>}] \cup
                { [r \in Regions |-> <<[name |-> Class, ctime |-> 0, region |-> r]>>] }
    /\ rotStatus = "idle"
    /\ RotIdle
    /\ CreateIdle
    /\ cfgRegions \in RegionLists
    /\ GetIdle
    /\ OpIdle
    /\ FilterIdle

\* RotateDelete is left out: the by-name lookup answers at most one row and
\* rotation runs only with Retain > 1, so ds stays empty
NextCreate ==
    \/ \E dry \in BOOLEAN : CreateStart(dry)
    \/ CreateRegion
    \/ CreateAfterLoop
    \/ CreateReturn
    \/ RotateStart
    \/ \E r \in Regions : RotateLookup(r)
    \/ \E r \in Regions : RotateErrRead(r)
    \/ \E r \in Regions : RotateErrWrite(r)
    \/ \E r \in Regions : RotateExclude(r)
    \/ \E r \in Regions : RotateTaskDone(r)
    \/ RotateReturn

SpecCreate == InitCreate /\ [][NextCreate]_vars

-----------------------------------------------------------------------------
(* The fan-out readers                                                     *)
(*   GetLaunchConfigurations, GetAutoScaleGroups, GetAlarms, GetAddresses  *)
(* share one shape: a goroutine per region calls GetRegion...(region, list,*)
(* search), which describes the region and appends its rows to the shared  *)
(* slice; a failing region appends its error to the shared errs; the       *)
(* caller waits for the WaitGroup and returns both.  Neither append holds  *)
(* a lock, so each is a read of the slice followed by a write of it.       *)

GetKinds == {"GetLaunchConfigurations", "GetAutoScaleGroups", "GetAlarms", "GetAddresses"}

\* the rows a region's Describe call returns, marshalled with their region
RegionRows(r, n) == [i \in 1..n |-> <<r, i>>]

\* GetRegionLaunchConfigurations returns before its append when the region is
\* empty ("err != nil || len(...) == 0"); the other readers append what they got
Appends(kind, n) == IF kind = "GetLaunchConfigurations" THEN n > 0 ELSE TRUE

\* wg.Add(1); go func(region) {...}(region)
GetSpawn ==
    /\ gmain = "spawn"
    /\ gidx <= Len(RegionList)
    /\ wg' = wg + 1
    /\ gpc' = [gpc EXCEPT ![RegionList[gidx]] = "describe"]
    /\ gidx' = gidx + 1
    /\ UNCHANGED <<getKind, getResp, gmain, list, gerrs, gseen>>
    /\ UNCHANGED <<envVars, rotVars, createVars, opVars, filterVars, retErr>>

\* the loop over the regions is over: the caller reaches wg.Wait()
GetSpawned ==
    /\ gmain = "spawn"
    /\ gidx > Len(RegionList)
    /\ gmain' = "wait"
    /\ UNCHANGED <<getKind, getResp, gidx, gpc, wg, list, gerrs, gseen>>
    /\ UNCHANGED <<envVars, rotVars, createVars, opVars, filterVars, retErr>>

\* GetRegion...: the Describe call and the marshalling of its rows
GetDescribe(r) ==
    /\ gpc[r] = "describe"
    /\ gpc' = [gpc EXCEPT ![r] =
                 IF getResp[r].err THEN "errRead"
                 ELSE IF Appends(getKind, getResp[r].n) THEN "listRead" ELSE "exit"]
    /\ UNCHANGED <<getKind, getResp, gmain, gidx, wg, list, gerrs, gseen>>
    /\ UNCHANGED <<envVars, rotVars, createVars, opVars, filterVars, retErr>>

AppendAdmitsOneAtATime(r, pcs) ==
    \A q \in Regions \ {r} : pcs[q] \notin {"listWrite", "errWrite"}

\* what a task at an append waits for: nothing, the goroutines take no lock
\* and pass nothing through a channel
AppendAdmits(r, pcs) == TRUE

\* *list = append(*list, rows...): the read of the shared slice ...
GetListRead(r) ==
    /\ gpc[r] = "listRead"
    /\ AppendAdmits(r, gpc)
    /\ gseen' = [gseen EXCEPT ![r] = list]
    /\ gpc' = [gpc EXCEPT ![r] = "listWrite"]
    /\ UNCHANGED <<getKind, getResp, gmain, gidx, wg, list, gerrs>>
    /\ UNCHANGED <<envVars, rotVars, createVars, opVars, filterVars, retErr>>

\* ... and the write of the slice it read, extended
GetListWrite(r) ==
    /\ gpc[r] = "listWrite"
    /\ list' = gseen[r] \o RegionRows(r, getResp[r].n)
    /\ gpc' = [gpc EXCEPT ![r] = "exit"]
    /\ UNCHANGED <<getKind, getResp, gmain, gidx, wg, gerrs, gseen>>
    /\ UNCHANGED <<envVars, rotVars, createVars, opVars, filterVars, retErr>>

\* errs = append(errs, err): the read ...
GetErrRead(r) ==
    /\ gpc[r] = "errRead"
    /\ AppendAdmits(r, gpc)
    /\ gseen' = [gseen EXCEPT ![r] = gerrs]
    /\ gpc' = [gpc EXCEPT ![r] = "errWrite"]
    /\ UNCHANGED <<getKind, getResp, gmain, gidx, wg, list, gerrs>>
    /\ UNCHANGED <<envVars, rotVars, createVars, opVars, filterVars, retErr>>

\* ... and the write
GetErrWrite(r) ==
    /\ gpc[r] = "errWrite"
    /\ gerrs' = Append(gseen[r], r)
    /\ gpc' = [gpc EXCEPT ![r] = "exit"]
    /\ UNCHANGED <<getKind, getResp, gmain, gidx, wg, list, gseen>>
    /\ UNCHANGED <<envVars, rotVars, createVars, opVars, filterVars, retErr>>

\* defer wg.Done()
GetDone(r) ==
    /\ gpc[r] = "exit"
    /\ wg' = wg - 1
    /\ gpc' = [gpc EXCEPT ![r] = "done"]
    /\ UNCHANGED <<getKind, getResp, gmain, gidx, list, gerrs, gseen>>
    /\ UNCHANGED <<envVars, rotVars, createVars, opVars, filterVars, retErr>>

WaitReturnsAtOnce(counter) == TRUE

\* wg.Wait() returns when the counter is zero
WaitReturns(counter) == counter = 0

\* wg.Wait(); return list, errs
GetReturn ==
    /\ gmain = "wait"
    /\ WaitReturns(wg)
    /\ gmain' = "returned"
    /\ UNCHANGED <<getKind, getResp, gidx, gpc, wg, list, gerrs, gseen>>
    /\ UNCHANGED <<envVars, rotVars, createVars, opVars, filterVars, retErr>>

InitGet ==
    /\ callErr = NoError
    /\ retErr = NoError
    /\ cfgRetain = 0
    /\ dryRun = FALSE
    /\ asgFail = FALSE
    /\ asgs = [r \in Regions |-> <<>>]
    /\ lcResp = [r \in Regions |-> LookupFailed]
    /\ lcs = [r \in Regions |-> <<>>]
    /\ rotStatus = "idle"
    /\ RotIdle
    /\ CreateIdle
    /\ cfgRegions = RegionList
    /\ getKind \in GetKinds
    /\ getResp \in [Regions -> {[err |-> TRUE, n |-> 0]} \cup
                                { [err |-> FALSE, n |-> n] : n \in 0..MaxRows }]
    /\ gmain = "spawn"
    /\ gidx = 1
    /\ gpc = [r \in Regions |-> "unstarted"]
    /\ wg = 0
    /\ list = <<>>
    /\ gerrs = <<>>
    /\ gseen = [r \in Regions |-> <<>>]
    /\ OpIdle
    /\ FilterIdle

NextGet ==
    \/ GetSpawn
    \/ GetSpawned
    \/ \E r \in Regions : GetDescribe(r)
    \/ \E r \in Regions : GetListRead(r)
    \/ \E r \in Regions : GetListWrite(r)
    \/ \E r \in Regions : GetErrRead(r)
    \/ \E r \in Regions : GetErrWrite(r)
    \/ \E r \in Regions : GetDone(r)
    \/ GetReturn

SpecGet == InitGet /\ [][NextGet]_vars

-----------------------------------------------------------------------------
(* RotateLaunchConfigurations from its first statement: the fan-out that   *)
(* lists the auto-scaling groups runs, then the rotation goes on with what *)
(* it returned                                                             *)

ListingFailedNever(e) == FALSE

\* if err != nil: the slice of errors is nil unless something was appended
ListingFailed(e) == e # <<>>

\* autoScaleGroups, err := GetAutoScaleGroups(""): the fan-out has returned
RotateListed ==
    /\ rotStatus = "listing"
    /\ gmain = "returned"
    /\ asgFail' = ListingFailed(gerrs)
    /\ rotStatus' = "called"
    /\ UNCHANGED <<cfgRetain, dryRun, asgs, lcResp, callErr, lcs>>
    /\ UNCHANGED <<excludedConfigs, rpc, launchConfigs, ds, errs, errsSeen, deleteCalls,
                   deleteFailed>>
    /\ UNCHANGED nonRotVars

InitRotateListing ==
    /\ callErr = NoError
    /\ retErr = NoError
    /\ cfgRetain \in 0..MaxRetain
    /\ dryRun = FALSE
    /\ asgFail = FALSE
    /\ asgs = [r \in Regions |-> <<>>]
    /\ lcResp \in Responses
    /\ lcs = [r \in Regions |-> <<>>]
    /\ rotStatus = "listing"
    /\ RotIdle
    /\ CreateIdle
    /\ cfgRegions = RegionList
    /\ getKind = "GetAutoScaleGroups"
    /\ getResp \in [Regions -> {[err |-> TRUE, n |-> 0], [err |-> FALSE, n |-> 1]}]
    /\ gmain = "spawn"
    /\ gidx = 1
    /\ gpc = [r \in Regions |-> "unstarted"]
    /\ wg = 0
    /\ list = <<>>
    /\ gerrs = <<>>
    /\ gseen = [r \in Regions |-> <<>>]
    /\ OpIdle
    /\ FilterIdle

NextRotateListing ==
    \/ NextGet
    \/ RotateListed
    \/ NextRotate

SpecRotateListing == InitRotateListing /\ [][NextRotateListing]_vars

-----------------------------------------------------------------------------
(* The operations that list, ask for confirmation and then change (SpecOps) *)

OpKinds ==
    {"DeleteLaunchConfigurations", "DeleteAutoScaleGroups", "UpdateAutoScaleGroups",
     "SuspendProcesses", "ResumeProcesses", "CreateAutoScaleAlarms",
     "DeleteAddresses", "CreateAutoScaleGroups"}

\* the operations that take a region argument and read one region when it is set
RegionKinds ==
    {"DeleteLaunchConfigurations", "DeleteAutoScaleGroups", "SuspendProcesses",
     "ResumeProcesses", "DeleteAddresses"}

\* the operations that load an auto-scaling class and walk its regions
ClassKinds == {"UpdateAutoScaleGroups", "CreateAutoScaleGroups"}

Resource(name, region) == [name |-> name, region |-> region]

Call(api, region, name, arg) ==
    [api |-> api, region |-> region, name |-> name, arg |-> arg]

opFrame == <<envVars, rotVars, createVars, getVars, filterVars, opInputs>>

\* whether the listing's failure reaches the operation: the error of the
\* one-region reader is kept, the errors of the fan-out are dropped
\* (asgList, _ = ...) except by CreateAutoScaleAlarms
ListingFails(kind, region, failed) ==
    /\ failed
    /\ \/ kind = "CreateAutoScaleAlarms"
       \/ kind \in RegionKinds /\ region # ""

\* the listing, the "nothing found" return and, for CreateAutoScaleAlarms,
\* the load of the alarm class before it
OpList ==
    /\ opc = "start"
    /\ opKind \in OpKinds \ {"CreateAutoScaleGroups"}
    /\ \E loaded \in BOOLEAN :
         IF opKind = "CreateAutoScaleAlarms" /\ ~loaded
         THEN opc' = "returned" /\ opRet' = "ConfigError" /\ UNCHANGED retErr /\ UNCHANGED opList
         ELSE IF ListingFails(opKind, opRegion, gatherErr)
         THEN opc' = "returned" /\ opRet' = "GatherError" /\ UNCHANGED retErr /\ UNCHANGED opList
         ELSE IF Len(matched) = 0
         THEN opc' = "returned" /\ opRet' = "NotFound" /\ UNCHANGED retErr /\ UNCHANGED opList
         ELSE opc' = "prompt" /\ opList' = matched /\ UNCHANGED <<opRet, retErr>>
    /\ UNCHANGED <<prompted, oidx, ophase, oregs, calls>>
    /\ UNCHANGED opFrame

SkipsPromptAlways(kind, force) == TRUE

SkipsPromptNever(kind, force) == FALSE

\* !forceYes && !terminal.PromptBool(...): only UpdateAutoScaleGroups has a
\* flag in front of the prompt
SkipsPrompt(kind, force) == kind = "UpdateAutoScaleGroups" /\ force

OpPrompt ==
    /\ opc = "prompt"
    /\ IF SkipsPrompt(opKind, opForce)
       THEN opc' = "run" /\ UNCHANGED <<prompted, opRet, retErr>>
       ELSE /\ prompted' = TRUE
            /\ IF answer
               THEN opc' = "run" /\ UNCHANGED <<opRet, retErr>>
               ELSE opc' = "returned" /\ opRet' = "Aborting!" /\ UNCHANGED retErr
    /\ UNCHANGED <<opList, oidx, ophase, oregs, calls>>
    /\ UNCHANGED opFrame

\* one pass of deleteLaunchConfigurations' loop
OpDeleteLaunchConfiguration ==
    /\ opc = "run"
    /\ opKind = "DeleteLaunchConfigurations"
    /\ oidx <= Len(opList)
    /\ LET lc == Current(opList, oidx) IN
         IF IssuesDelete(dryRun)
         THEN /\ calls' = Append(calls, Call("DeleteLaunchConfiguration", lc.region, lc.name, FALSE))
              /\ \E ok \in BOOLEAN :
                   IF ok THEN oidx' = oidx + 1 /\ UNCHANGED <<opc, opRet, retErr>>
                   ELSE opc' = "returned" /\ opRet' = "CallError" /\ retErr' = Unwrap(callErr) /\ UNCHANGED oidx
         ELSE oidx' = oidx + 1 /\ UNCHANGED <<opc, opRet, calls, retErr>>
    /\ UNCHANGED <<prompted, opList, ophase, oregs>>
    /\ UNCHANGED opFrame

IssuesDeleteGroup(dry) == ~dry

\* one pass of deleteAutoScaleGroups' loop; force travels as ForceDelete
OpDeleteAutoScaleGroup ==
    /\ opc = "run"
    /\ opKind = "DeleteAutoScaleGroups"
    /\ oidx <= Len(opList)
    /\ LET asg == Current(opList, oidx) IN
         IF IssuesDeleteGroup(dryRun)
         THEN /\ calls' = Append(calls, Call("DeleteAutoScalingGroup", asg.region, asg.name, opForce))
              /\ \E ok \in BOOLEAN :
                   IF ok THEN oidx' = oidx + 1 /\ UNCHANGED <<opc, opRet, retErr>>
                   ELSE opc' = "returned" /\ opRet' = "CallError" /\ retErr' = Unwrap(callErr) /\ UNCHANGED oidx
         ELSE oidx' = oidx + 1 /\ UNCHANGED <<opc, opRet, calls, retErr>>
    /\ UNCHANGED <<prompted, opList, ophase, oregs>>
    /\ UNCHANGED opFrame

\* one pass of deleteAddresses' loop: the call is always made, dryRun
\* travels as its DryRun parameter
OpReleaseAddress ==
    /\ opc = "run"
    /\ opKind = "DeleteAddresses"
    /\ oidx <= Len(opList)
    /\ LET addr == Current(opList, oidx) IN
         /\ calls' = Append(calls, Call("ReleaseAddress", addr.region, addr.name, dryRun))
         /\ \E ok \in BOOLEAN :
              IF ok THEN oidx' = oidx + 1 /\ UNCHANGED <<opc, opRet, retErr>>
              ELSE opc' = "returned" /\ opRet' = "CallError" /\ retErr' = Unwrap(callErr) /\ UNCHANGED oidx
    /\ UNCHANGED <<prompted, opList, ophase, oregs>>
    /\ UNCHANGED opFrame

\* SuspendProcesses and ResumeProcesses test dryRun once, around the loop
IssuesProcesses(dry) == ~dry

ProcessesApi(kind) ==
    IF kind = "SuspendProcesses" THEN "SuspendProcesses" ELSE "ResumeProcesses"

\* one pass of the loop of suspendProcesses or resumeProcesses
OpProcesses ==
    /\ opc = "run"
    /\ opKind \in {"SuspendProcesses", "ResumeProcesses"}
    /\ IssuesProcesses(dryRun)
    /\ oidx <= Len(opList)
    /\ LET asg == Current(opList, oidx) IN
         /\ calls' = Append(calls, Call(ProcessesApi(opKind), asg.region, asg.name, FALSE))
         /\ \E ok \in BOOLEAN :
              IF ok THEN oidx' = oidx + 1 /\ UNCHANGED <<opc, opRet, retErr>>
              ELSE opc' = "returned" /\ opRet' = "CallError" /\ retErr' = Unwrap(callErr) /\ UNCHANGED oidx
    /\ UNCHANGED <<prompted, opList, ophase, oregs>>
    /\ UNCHANGED opFrame

\* with dryRun the loop is not entered at all
OpSkipProcesses ==
    /\ opc = "run"
    /\ opKind \in {"SuspendProcesses", "ResumeProcesses"}
    /\ ~IssuesProcesses(dryRun)
    /\ opc' = "returned"
    /\ opRet' = "ok" /\ UNCHANGED retErr
    /\ UNCHANGED <<prompted, opList, oidx, ophase, oregs, calls>>
    /\ UNCHANGED opFrame

IssuesPutPolicy(dry) == ~dry

IssuesPutAlarm(dry) == ~dry

\* one pass of createAutoScaleAlarms' loop, for the group the operation is
\* at: the scaling policy of the alarm's action, then the alarm itself.
\* UpdateAutoScaleGroups and CreateAutoScaleGroups load the alarm class first.
OpAlarm ==
    /\ opc = "run"
    /\ \/ opKind = "CreateAutoScaleAlarms"
       \/ opKind \in ClassKinds /\ ophase = "alarms"
    /\ oidx <= Len(opList)
    /\ \E loaded, polOk, putOk \in BOOLEAN :
         LET asg == Current(opList, oidx)
             loads == opKind = "UpdateAutoScaleGroups"
                        \/ (opKind = "CreateAutoScaleGroups" /\ oidx = 1)
             withPolicy ==
                 IF alarmHasPolicy /\ IssuesPutPolicy(dryRun)
                 THEN Append(calls, Call("PutScalingPolicy", asg.region, asg.name, FALSE))
                 ELSE calls
             withAlarm ==
                 IF IssuesPutAlarm(dryRun)
                 THEN Append(withPolicy, Call("PutMetricAlarm", asg.region, asg.name, FALSE))
                 ELSE withPolicy
         IN  IF loads /\ ~loaded
             THEN opc' = "returned" /\ opRet' = "ConfigError" /\ UNCHANGED retErr
                    /\ UNCHANGED <<oidx, ophase, calls>>
             ELSE IF alarmHasPolicy /\ ~polOk
             THEN opc' = "returned" /\ opRet' = "PolicyError" /\ UNCHANGED retErr /\ calls' = withPolicy
                    /\ UNCHANGED <<oidx, ophase>>
             ELSE IF IssuesPutAlarm(dryRun) /\ ~putOk
             THEN opc' = "returned" /\ opRet' = "CallError" /\ retErr' = Unwrap(callErr) /\ calls' = withAlarm
                    /\ UNCHANGED <<oidx, ophase>>
             ELSE /\ calls' = withAlarm
                  /\ oidx' = oidx + 1
                  /\ ophase' = IF opKind = "UpdateAutoScaleGroups" THEN "load" ELSE ophase
                  /\ UNCHANGED <<opc, opRet, retErr>>
    /\ UNCHANGED <<prompted, opList, oregs>>
    /\ UNCHANGED opFrame

\* updateAutoScaleGroups, head of the loop body: the class of the group, the
\* launch-configuration class, the version argument and the zones are loaded
OpUpdateLoad ==
    /\ opc = "run"
    /\ opKind = "UpdateAutoScaleGroups"
    /\ ophase = "load"
    /\ oidx <= Len(opList)
    /\ \E loaded \in BOOLEAN :
         IF ~loaded
         THEN opc' = "returned" /\ opRet' = "ConfigError" /\ UNCHANGED retErr /\ UNCHANGED <<ophase, oregs>>
         ELSE IF opVersion # <<>> /\ ~Atoi(opVersion).ok
         THEN opc' = "returned" /\ opRet' = "VersionError" /\ UNCHANGED retErr /\ UNCHANGED <<ophase, oregs>>
         ELSE ophase' = "regions" /\ oregs' = classRegions /\ UNCHANGED <<opc, opRet, retErr>>
    /\ UNCHANGED <<prompted, opList, oidx, calls>>
    /\ UNCHANGED opFrame

IssuesUpdateAlways(dry) == TRUE

IssuesUpdate(dry) == ~dry

\* the region an update of group asg, reached at region of the class's zone
\* map, is sent to: the session is opened on the loop's region
UpdateRegion(asg, region) == region

\* updateAutoScaleGroups, one pass of the inner loop over the regions of the
\* class's availability zones (a map: any order)
OpUpdateRegion ==
    /\ opc = "run"
    /\ opKind = "UpdateAutoScaleGroups"
    /\ ophase = "regions"
    /\ \E region \in oregs, lookup \in Lookups, outcome \in {"updateFails", "tagsFail", "ok"} :
         LET asg == Current(opList, oidx)
             to == UpdateRegion(asg, region)
             lcName == GetLaunchConfigurationName(region, Class, UpdateVersion(opVersion), lookup)
             updated == Append(calls, Call("UpdateAutoScalingGroup", to, asg.name, lcName))
             tagged == Append(updated, Call("CreateOrUpdateTags", to, asg.name, lcName))
         IN  IF lcName = ""
             THEN opc' = "returned" /\ opRet' = "NotAvailable" /\ UNCHANGED retErr /\ UNCHANGED <<oregs, calls>>
             ELSE IF IssuesUpdate(dryRun) /\ outcome = "updateFails"
             THEN opc' = "returned" /\ opRet' = "CallError" /\ retErr' = Unwrap(callErr) /\ calls' = updated
                    /\ UNCHANGED oregs
             ELSE IF IssuesUpdate(dryRun) /\ outcome = "tagsFail"
             THEN opc' = "returned" /\ opRet' = "CallError" /\ retErr' = Unwrap(callErr) /\ calls' = tagged
                    /\ UNCHANGED oregs
             ELSE /\ calls' = IF IssuesUpdate(dryRun) THEN tagged ELSE calls
                  /\ oregs' = oregs \ {region}
                  /\ UNCHANGED <<opc, opRet, retErr>>
    /\ UNCHANGED <<prompted, opList, oidx, ophase>>
    /\ UNCHANGED opFrame

\* after the inner loop: the alarms of the class, or the next group
OpUpdateRegionsDone ==
    /\ opc = "run"
    /\ opKind = "UpdateAutoScaleGroups"
    /\ ophase = "regions"
    /\ oregs = {}
    /\ IF classHasAlarm
       THEN ophase' = "alarms" /\ UNCHANGED oidx
       ELSE ophase' = "load" /\ oidx' = oidx + 1
    /\ UNCHANGED <<opc, prompted, opList, oregs, calls, opRet, retErr>>
    /\ UNCHANGED opFrame

\* CreateAutoScaleGroups up to its loop: the classes and the zones are loaded;
\* there is no listing and no prompt
OpCreateStart ==
    /\ opc = "start"
    /\ opKind = "CreateAutoScaleGroups"
    /\ \E loaded \in BOOLEAN :
         IF loaded
         THEN opc' = "run" /\ ophase' = "regions" /\ oregs' = classRegions
                /\ UNCHANGED <<opRet, retErr>>
         ELSE opc' = "returned" /\ opRet' = "ConfigError" /\ UNCHANGED retErr /\ UNCHANGED <<ophase, oregs>>
    /\ UNCHANGED <<prompted, opList, oidx, calls>>
    /\ UNCHANGED opFrame

IssuesCreateGroup(dry) == ~dry

\* CreateAutoScaleGroups, one pass of the loop over the regions of the class
OpCreateGroup ==
    /\ opc = "run"
    /\ opKind = "CreateAutoScaleGroups"
    /\ ophase = "regions"
    /\ \E region \in oregs, lookup \in Lookups, outcome \in {"createFails", "ok"} :
         /\ opList' = Append(opList, Resource(Class, region))
         /\ IF GetLaunchConfigurationName(region, Class, StoredVersion, lookup) = ""
            THEN opc' = "returned" /\ opRet' = "NotAvailable" /\ UNCHANGED retErr /\ UNCHANGED <<oregs, calls>>
            ELSE IF IssuesCreateGroup(dryRun)
            THEN /\ calls' = Append(calls, Call("CreateAutoScalingGroup", region, Class,
                                                GetLaunchConfigurationName(region, Class, StoredVersion, lookup)))
                 /\ IF outcome = "createFails"
                    THEN opc' = "returned" /\ opRet' = "CallError" /\ retErr' = Unwrap(callErr) /\ UNCHANGED oregs
                    ELSE oregs' = oregs \ {region} /\ UNCHANGED <<opc, opRet, retErr>>
            ELSE oregs' = oregs \ {region} /\ UNCHANGED <<opc, opRet, calls, retErr>>
    /\ UNCHANGED <<prompted, oidx, ophase>>
    /\ UNCHANGED opFrame

\* after the loop: the alarms of the class over the groups just named, or
\* the return
OpCreateGroupsDone ==
    /\ opc = "run"
    /\ opKind = "CreateAutoScaleGroups"
    /\ ophase = "regions"
    /\ oregs = {}
    /\ IF classHasAlarm
       THEN ophase' = "alarms" /\ UNCHANGED <<opc, opRet, retErr>>
       ELSE opc' = "returned" /\ opRet' = "ok" /\ UNCHANGED retErr /\ UNCHANGED ophase
    /\ UNCHANGED <<prompted, opList, oidx, oregs, calls>>
    /\ UNCHANGED opFrame

\* the loop over the list has ended
OpFinish ==
    /\ opc = "run"
    /\ oidx > Len(opList)
    /\ \/ opKind \notin ClassKinds
       \/ opKind = "UpdateAutoScaleGroups" /\ ophase = "load"
       \/ opKind = "CreateAutoScaleGroups" /\ ophase = "alarms"
    /\ opc' = "returned"
    /\ opRet' = "ok" /\ UNCHANGED retErr
    /\ UNCHANGED <<prompted, opList, oidx, ophase, oregs, calls>>
    /\ UNCHANGED opFrame

Names == {"a", "b"}

Resources == { Resource(n, r) : n \in Names, r \in Regions }

\* the lists a search can match: distinct resources, all of the region
\* argument's region when one is given
MatchedLists(region) ==
    UNION { { l \in [1..k -> Resources] :
                /\ \A i, j \in 1..k : i # j => l[i] # l[j]
                /\ region # "" => \A i \in 1..k : l[i].region = region }
            : k \in 0..MaxMatched }

InitOps ==
    /\ callErr \in CallErrors
    /\ retErr = NoError
    /\ cfgRetain = 0
    /\ dryRun \in BOOLEAN
    /\ asgFail = FALSE
    /\ asgs = [r \in Regions |-> <<>>]
    /\ lcResp = [r \in Regions |-> LookupFailed]
    /\ lcs = [r \in Regions |-> <<LaunchConfig(r, StoredVersion)>>]
    /\ rotStatus = "idle"
    /\ RotIdle
    /\ CreateIdle
    /\ cfgRegions = RegionList
    /\ GetIdle
    /\ FilterIdle
    /\ opKind \in OpKinds
    /\ opForce \in IF opKind \in {"UpdateAutoScaleGroups", "DeleteAutoScaleGroups"}
                   THEN BOOLEAN ELSE {FALSE}
    /\ opRegion \in IF opKind \in RegionKinds THEN {""} \cup Regions ELSE {""}
    /\ matched \in IF opKind = "CreateAutoScaleGroups" THEN {<<>>}
                   ELSE MatchedLists(opRegion)
    /\ gatherErr \in IF opKind = "CreateAutoScaleGroups" THEN {FALSE} ELSE BOOLEAN
    /\ answer \in IF opKind = "CreateAutoScaleGroups" THEN {FALSE} ELSE BOOLEAN
    /\ classRegions \in IF opKind \in ClassKinds THEN SUBSET Regions ELSE {{}}
    /\ classHasAlarm \in IF opKind \in ClassKinds THEN BOOLEAN
                         ELSE {opKind = "CreateAutoScaleAlarms"}
    /\ alarmHasPolicy \in IF classHasAlarm THEN BOOLEAN ELSE {FALSE}
    /\ opVersion = <<>>
    /\ opDomain = ""
    /\ opc = "start"
    /\ OpFresh

NextOps ==
    \/ OpList
    \/ OpPrompt
    \/ OpDeleteLaunchConfiguration
    \/ OpDeleteAutoScaleGroup
    \/ OpReleaseAddress
    \/ OpProcesses
    \/ OpSkipProcesses
    \/ OpAlarm
    \/ OpUpdateLoad
    \/ OpUpdateRegion
    \/ OpUpdateRegionsDone
    \/ OpCreateStart
    \/ OpCreateGroup
    \/ OpCreateGroupsDone
    \/ OpFinish

SpecOps == InitOps /\ [][NextOps]_vars

-----------------------------------------------------------------------------
(* CreateAddress (SpecAddress) *)

\* the domains a caller passes: the two of EC2 and two that are neither
Domains == {"vpc", "classic", "standard", ""}

\* the regions a caller passes: the valid ones and one that is not
RegionArgs == Regions \cup {"mars-1"}

\* if !(domain == "vpc" || domain != "classic")
DomainRejected(domain) == ~(domain = "vpc" \/ domain # "classic")

\* if !ValidRegion(region) { return errors.New("Region [...] is Invalid!") }
AddrValidateRegion ==
    /\ opKind = "CreateAddress"
    /\ opc = "region"
    /\ IF ~ValidRegion(opRegion)
       THEN opc' = "returned" /\ opRet' = "RegionError"
       ELSE opc' = "domain" /\ UNCHANGED opRet
    /\ UNCHANGED <<prompted, opList, oidx, ophase, oregs, calls, retErr>>
    /\ UNCHANGED opFrame

\* the test of the domain, with its "Domain should be either [vpc] or
\* [classic]." return
AddrValidateDomain ==
    /\ opKind = "CreateAddress"
    /\ opc = "domain"
    /\ IF DomainRejected(opDomain)
       THEN opc' = "returned" /\ opRet' = "DomainError"
       ELSE opc' = "allocate" /\ UNCHANGED opRet
    /\ UNCHANGED <<prompted, opList, oidx, ophase, oregs, calls, retErr>>
    /\ UNCHANGED opFrame

\* svc.AllocateAddress(params), the dry-run flag passed on in the request
AddrAllocate ==
    /\ opKind = "CreateAddress"
    /\ opc = "allocate"
    /\ calls' = Append(calls, Call("AllocateAddress", opRegion, "", opDomain))
    /\ opc' = "returned"
    /\ \E outcome \in {"allocateFails", "ok"} :
         IF outcome = "allocateFails"
         THEN opRet' = "CallError" /\ retErr' = Unwrap(callErr)
         ELSE opRet' = "ok" /\ UNCHANGED retErr
    /\ UNCHANGED <<prompted, opList, oidx, ophase, oregs>>
    /\ UNCHANGED opFrame

InitAddress ==
    /\ callErr \in CallErrors
    /\ retErr = NoError
    /\ cfgRetain = 0
    /\ dryRun \in BOOLEAN
    /\ asgFail = FALSE
    /\ asgs = [r \in Regions |-> <<>>]
    /\ lcResp = [r \in Regions |-> LookupFailed]
    /\ lcs = [r \in Regions |-> <<>>]
    /\ rotStatus = "idle"
    /\ RotIdle
    /\ CreateIdle
    /\ cfgRegions = RegionList
    /\ GetIdle
    /\ FilterIdle
    /\ opKind = "CreateAddress"
    /\ opForce = FALSE
    /\ opRegion \in RegionArgs
    /\ matched = <<>>
    /\ gatherErr = FALSE
    /\ answer = FALSE
    /\ classRegions = {}
    /\ classHasAlarm = FALSE
    /\ alarmHasPolicy = FALSE
    /\ opVersion = <<>>
    /\ opDomain \in Domains
    /\ opc = "region"
    /\ OpFresh

NextAddress ==
    \/ AddrValidateRegion
    \/ AddrValidateDomain
    \/ AddrAllocate

SpecAddress == InitAddress /\ [][NextAddress]_vars

-----------------------------------------------------------------------------
(* UpdateAutoScaleGroups and CreateAutoScaleGroups over the clouds and the *)
(* version arguments they can meet, with a user who confirms               *)

\* the version arguments: none, an integer in two spellings, two non-integers
VersionArgs == { <<>>, <<"2">>, <<"0", "2">>, <<"x">>, <<"2", "x">> }

\* what a region can hold of the class: any of its versions 1 and 2
Holdings(r) == { Rows(r, s) : s \in { <<>>, <<1>>, <<2>>, <<1, 2>> } }

InitClassOps ==
    /\ callErr = AwsError
    /\ retErr = NoError
    /\ cfgRetain = 0
    /\ dryRun \in BOOLEAN
    /\ asgFail = FALSE
    /\ asgs = [r \in Regions |-> <<>>]
    /\ lcResp = [r \in Regions |-> LookupFailed]
    /\ \E h1 \in Holdings(RegionList[1]), h2 \in Holdings(RegionList[2]) :
          lcs = [r \in Regions |-> IF r = RegionList[1] THEN h1 ELSE h2]
    /\ rotStatus = "idle"
    /\ RotIdle
    /\ CreateIdle
    /\ cfgRegions = RegionList
    /\ GetIdle
    /\ FilterIdle
    /\ opKind \in ClassKinds
    /\ opForce = FALSE
    /\ opRegion = ""
    /\ matched \in IF opKind = "CreateAutoScaleGroups" THEN {<<>>} ELSE MatchedLists("")
    /\ gatherErr = FALSE
    /\ answer = TRUE
    /\ classRegions \in SUBSET Regions
    /\ classHasAlarm \in BOOLEAN
    /\ alarmHasPolicy = FALSE
    /\ opVersion \in IF opKind = "UpdateAutoScaleGroups" THEN VersionArgs ELSE {<<>>}
    /\ opDomain = ""
    /\ opc = "start"
    /\ OpFresh

NextClassOps ==
    \/ OpList
    \/ OpPrompt
    \/ OpAlarm
    \/ OpUpdateLoad
    \/ OpUpdateRegion
    \/ OpUpdateRegionsDone
    \/ OpCreateStart
    \/ OpCreateGroup
    \/ OpCreateGroupsDone
    \/ OpFinish

SpecClassOps == InitClassOps /\ [][NextClassOps]_vars

-----------------------------------------------------------------------------
(* Every entry point that makes mutating calls: one invocation runs either *)
(* CreateLaunchConfigurations or one of the operations above               *)

InitCalls == InitCreate \/ InitOps

NextCalls == NextCreate \/ NextOps

SpecCalls == InitCalls /\ [][NextCalls]_vars

-----------------------------------------------------------------------------
(* The search filter of GetRegionLaunchConfigurations (the same loop is in *)
(* GetRegionAutoScaleGroups and GetRegionAlarms).  Strings are sequences   *)
(* of characters; the search term is a literal, which the regular          *)
(* expression matches anywhere in the value.                               *)

\* most rows a region's Describe call returns to the filter
MaxFilterRows == 2

\* term.MatchString(sVal) for a literal term: it occurs somewhere in sVal
MatchString(term, sVal) ==
    \E i \in 1..(Len(sVal) + 1) :
        /\ i + Len(term) - 1 <= Len(sVal)
        /\ SubSeq(sVal, i, i + Len(term) - 1) = term

\* the name of a field's type, as reflect prints it
TypeName(kind) ==
    IF kind = "bool" THEN <<"b", "o", "o", "l">> ELSE <<"s", "t", "r", "i", "n", "g">>

\* reflect.Value.String(): the value of a string field; for a field of any
\* other kind the text "<T Value>", T the field's type
ReflectString(field) ==
    IF field.kind = "string" THEN field.val
    ELSE <<"<">> \o TypeName(field.kind) \o <<" ", "V", "a", "l", "u", "e", ">">>

\* the fields reflect.ValueOf(c) enumerates, of a row marshalled from the
\* cloud's answer: Name, Region, EbsOptimized
Fields(row) ==
    << [kind |-> "string", val |-> row.name],
       [kind |-> "string", val |-> row.region],
       [kind |-> "bool", val |-> row.ebsOptimized] >>

\* for k := 0; k < NumField(); k++ { if term.MatchString(Field(k).String()) ... }
RowMatches(term, row) ==
    \E k \in 1..Len(Fields(row)) : MatchString(term, ReflectString(Fields(row)[k]))

\* one pass of the loop labelled Loop: the row is appended at its first
\* matching field and the loop goes on to the next row
FilterRow ==
    /\ fpc = "filter"
    /\ fSearch # <<>>
    /\ fIdx <= Len(fRows)
    /\ fOut' = IF RowMatches(fSearch, Current(fRows, fIdx))
               THEN Append(fOut, Current(fRows, fIdx)) ELSE fOut
    /\ fIdx' = fIdx + 1
    /\ UNCHANGED <<fSearch, fRows, fpc, fCloud>>
    /\ UNCHANGED <<envVars, rotVars, createVars, getVars, opVars, retErr>>

\* search == "": *lcList = append(*lcList, lc[:]...)
FilterAll ==
    /\ fpc = "filter"
    /\ fSearch = <<>>
    /\ fOut' = fOut \o fRows
    /\ fpc' = "done"
    /\ UNCHANGED <<fSearch, fRows, fIdx, fCloud>>
    /\ UNCHANGED <<envVars, rotVars, createVars, getVars, opVars, retErr>>

\* the loop has run over every row: return nil
FilterReturn ==
    /\ fpc = "filter"
    /\ fSearch # <<>>
    /\ fIdx > Len(fRows)
    /\ fpc' = "done"
    /\ UNCHANGED <<fSearch, fRows, fIdx, fOut, fCloud>>
    /\ UNCHANGED <<envVars, rotVars, createVars, getVars, opVars, retErr>>

\* search terms: none, and literals that occur in a name, in the region, in
\* the text reflect gives for a bool, or nowhere
Terms == { <<>>, <<"w">>, <<"d", "b">>, <<"e">>, <<"V", "a", "l">>, <<"z">> }

FilterRowValues ==
    { [name |-> n, region |-> <<"u", "s">>, ebsOptimized |-> e] :
        n \in { <<"w", "e", "b">>, <<"d", "b">> }, e \in BOOLEAN }

InitFilter ==
    /\ cfgRetain = 0
    /\ dryRun = FALSE
    /\ asgFail = FALSE
    /\ asgs = [r \in Regions |-> <<>>]
    /\ lcResp = [r \in Regions |-> LookupFailed]
    /\ callErr = NoError
    /\ retErr = NoError
    /\ lcs = [r \in Regions |-> <<>>]
    /\ rotStatus = "idle"
    /\ RotIdle
    /\ CreateIdle
    /\ cfgRegions = RegionList
    /\ GetIdle
    /\ OpIdle
    /\ fSearch \in Terms
    /\ fRows \in UNION { [1..k -> FilterRowValues] : k \in 0..MaxFilterRows }
    /\ fIdx = 1
    /\ fOut = <<>>
    /\ fpc = "filter"
    /\ fCloud = [r \in Regions |-> <<>>]

NextFilter ==
    \/ FilterRow
    \/ FilterAll
    \/ FilterReturn

SpecFilter == InitFilter /\ [][NextFilter]_vars

-----------------------------------------------------------------------------
(* The operations from their first statement: the readers list and filter  *)
(* the cloud's rows, then the operation goes on with the list they filled  *)

\* the operations whose rows are known to carry a field that is not a string
SearchKinds ==
    {"DeleteLaunchConfigurations", "DeleteAutoScaleGroups", "UpdateAutoScaleGroups",
     "SuspendProcesses", "ResumeProcesses"}

\* the characters of a region's name
RegionChars(r) ==
    IF r = "us-east-1" THEN <<"u", "s", "-", "e", "a", "s", "t", "-", "1">>
    ELSE <<"u", "s", "-", "w", "e", "s", "t", "-", "2">>

RECURSIVE Joined(_)
Joined(chars) == IF chars = <<>> THEN "" ELSE Head(chars) \o Joined(Tail(chars))

\* lc[i].Marshal(config, region, ...): the rows a region's answer can give
CloudRows(r) ==
    { [name |-> n, region |-> RegionChars(r), ebsOptimized |-> FALSE] :
        n \in { <<"w", "e", "b">>, <<"d", "b">> } }

\* if region != "" { GetRegionXxx(region, list, search) } else { GetXxx(search) }:
\* the regions whose reader is called
ListedRegions(region) == IF region = "" THEN Regions ELSE {region}

\* one region's reader is called with the shared list; the fan-out's
\* readers are taken one after the other, in any order
OpReadRegion ==
    /\ opc = "listing"
    /\ fpc \in {"idle", "done"}
    /\ \E r \in oregs :
         /\ fRows' = fCloud[r]
         /\ oregs' = oregs \ {r}
    /\ fIdx' = 1
    /\ fpc' = "filter"
    /\ UNCHANGED <<fSearch, fOut, fCloud>>
    /\ UNCHANGED <<opInputs, opc, prompted, opList, oidx, ophase, calls, opRet>>
    /\ UNCHANGED <<envVars, rotVars, createVars, getVars, retErr>>

\* every reader has returned: the list is what they appended
OpListed ==
    /\ opc = "listing"
    /\ fpc = "done"
    /\ oregs = {}
    /\ matched' = [i \in 1..Len(fOut) |-> Resource(Joined(fOut[i].name), Joined(fOut[i].region))]
    /\ opc' = "start"
    /\ UNCHANGED <<opKind, opForce, opRegion, gatherErr, answer, classRegions, classHasAlarm,
                   alarmHasPolicy, opVersion, opDomain>>
    /\ UNCHANGED <<prompted, opList, oidx, ophase, oregs, calls, opRet>>
    /\ UNCHANGED <<envVars, rotVars, createVars, getVars, filterVars, retErr>>

InitSearchOps ==
    /\ callErr = AwsError
    /\ retErr = NoError
    /\ cfgRetain = 0
    /\ dryRun \in BOOLEAN
    /\ asgFail = FALSE
    /\ asgs = [r \in Regions |-> <<>>]
    /\ lcResp = [r \in Regions |-> LookupFailed]
    /\ lcs = [r \in Regions |-> <<LaunchConfig(r, StoredVersion)>>]
    /\ rotStatus = "idle"
    /\ RotIdle
    /\ CreateIdle
    /\ cfgRegions = RegionList
    /\ GetIdle
    /\ opKind \in SearchKinds
    /\ opForce = FALSE
    /\ opRegion \in IF opKind \in RegionKinds THEN {""} \cup Regions ELSE {""}
    /\ matched = <<>>
    /\ gatherErr = FALSE
    /\ answer \in BOOLEAN
    /\ classRegions = Regions
    /\ classHasAlarm = FALSE
    /\ alarmHasPolicy = FALSE
    /\ opVersion = <<>>
    /\ opDomain = ""
    /\ opc = "listing"
    /\ prompted = FALSE
    /\ opList = <<>>
    /\ oidx = 1
    /\ ophase = "load"
    /\ oregs = ListedRegions(opRegion)
    /\ calls = <<>>
    /\ opRet = "none"
    /\ fSearch \in Terms
    /\ fCloud \in [Regions -> UNION { [1..k -> UNION { CloudRows(r) : r \in Regions }]
                                        : k \in 0..MaxFilterRows }]
    /\ \A r \in Regions : \A k \in 1..Len(fCloud[r]) : fCloud[r][k] \in CloudRows(r)
    /\ fRows = <<>>
    /\ fIdx = 1
    /\ fOut = <<>>
    /\ fpc = "idle"

NextSearchOps ==
    \/ OpReadRegion
    \/ FilterRow
    \/ FilterAll
    \/ FilterReturn
    \/ OpListed
    \/ OpList
    \/ OpPrompt
    \/ OpDeleteLaunchConfiguration
    \/ OpDeleteAutoScaleGroup
    \/ OpProcesses
    \/ OpSkipProcesses
    \/ OpUpdateLoad
    \/ OpUpdateRegion
    \/ OpUpdateRegionsDone
    \/ OpFinish

SpecSearchOps == InitSearchOps /\ [][NextSearchOps]_vars

-----------------------------------------------------------------------------
(* Claims about the rotation (SpecRotate) *)

\* the launch-configuration names of the existing auto-scaling groups
InUse == LockedLaunchConfigurations(Flatten(asgs, Regions))

DeletedIn(r) == { c[2] : c \in { d \in deleteCalls : d[1] = r } }

\* C1: RotateLaunchConfigurations never issues a delete for a launch
\* configuration whose name is the launch-configuration field of an existing
\* auto-scaling group, whatever lists the regions return and whatever Retain is.
C1_NeverDeletesInUse == \A c \in deleteCalls : c[2] \notin InUse

\* the rows region r returned that no auto-scaling group uses, newest first
NotInUse(r) ==
    SortLaunchConfigs(SelectSeq(Rows(r, lcResp[r].rows), LAMBDA lc : lc.name \notin InUse))

\* C2: in each region the rotation deletes exactly the configurations that are
\* not in use and not among the Retain newest not-in-use ones, and none when at
\* most Retain are not in use (a real run whose lookup and deletes succeeded).
C2_DeletesExactlyTheExcess ==
    \A r \in Regions :
        (rpc[r] = "done" /\ ~dryRun /\ ~lcResp[r].err /\ deleteFailed = {})
            => DeletedIn(r) = { NotInUse(r)[i].name : i \in (cfgRetain + 1)..Len(NotInUse(r)) }

-----------------------------------------------------------------------------
(* Claims about CreateLaunchConfigurations (SpecCreate) *)

NamesOf(l) == { l[i].name : i \in 1..Len(l) }

\* the names CreateLaunchConfigurations has given the class so far: class-v1, class-v2, ...
ClassNames == { LaunchConfigurationName(Class, v) : v \in 1..cfgVersion }

\* C3: the candidates a region's rotation task collects are every launch
\* configuration of the class in that region, that is every configuration
\* CreateLaunchConfigurations created there under class-v1, class-v2, ...
C3_CandidatesAreTheClass ==
    \A r \in Regions :
        (rotStatus = "running" /\ rpc[r] = "exclude")
            => NamesOf(launchConfigs[r]) = NamesOf(lcs[r]) \cap ClassNames

\* C4: while a dry-run CreateLaunchConfigurations runs, no launch configuration
\* is created and none is deleted: the regions' launch configurations stay as
\* they were.
C4_DryRunChangesNothing ==
    [][dryRun' => (createCalls' = createCalls /\ deleteCalls' = deleteCalls /\ lcs' = lcs)]_vars

\* the class's region list contains a region that is not valid
HasInvalidRegion == \E i \in 1..Len(cfgRegions) : cfgRegions[i] \notin Regions

\* C25: if the class's region list contains an invalid region,
\* CreateLaunchConfigurations returns the "is not valid" error (once the
\* class configurations are loaded) and has created no launch configuration
\* in any region, whatever the position of the invalid region in the list.
C25_InvalidRegionCreatesNothing ==
    HasInvalidRegion
        => /\ createCalls = {}
           /\ (cpc = "returned" /\ cret # "LoadError") => cret = "NotValid"

-----------------------------------------------------------------------------
(* Claims about the fan-out readers (SpecGet) *)

\* C9: a fan-out reader returns to its caller only after every region task has
\* finished: once it has returned, no task is left that can still append.
C9_ReturnsAfterEveryTask ==
    gmain = "returned" => \A r \in Regions : gpc[r] = "done"

\* C9's case: the reader has returned rows that two region tasks appended
C9_Witness ==
    /\ gmain = "returned"
    /\ \A r \in Regions : ~getResp[r].err /\ getResp[r].n > 0
    /\ Len(list) > 0

RowsIn(l, x) == Cardinality({ i \in 1..Len(l) : l[i] = x })

\* C10: whatever the interleaving, the returned list holds exactly the rows of
\* the regions whose call succeeded, each once, and the returned errors hold
\* exactly one error for each region whose call failed.
C10_ReturnsEveryRowOnce ==
    gmain = "returned" =>
        /\ \A r \in Regions : \A i \in 1..MaxRows :
               RowsIn(list, <<r, i>>) = IF ~getResp[r].err /\ i <= getResp[r].n THEN 1 ELSE 0
        /\ \A r \in Regions :
               RowsIn(gerrs, r) = IF getResp[r].err THEN 1 ELSE 0

\* C11: the appends to the shared slices are unsynchronized: a task that
\* has reached its append is never held back, whatever the other tasks are
\* doing, so two tasks can be between the read and the write of the same
\* slice at once.
C11_AppendIsNeverHeldBack ==
    \A r \in Regions :
        /\ gpc[r] = "listRead" => ENABLED GetListRead(r)
        /\ gpc[r] = "errRead" => ENABLED GetErrRead(r)

\* two tasks inside the append to the same slice
C11_Witness ==
    \E r, q \in Regions :
        /\ r # q
        /\ \/ gpc[r] = "listWrite" /\ gpc[q] = "listWrite"
           \/ gpc[r] = "errWrite" /\ gpc[q] = "errWrite"

\* the deletion targets region r's task computes from the one read of the
\* groups and from the list the region returned
TargetsOf(r) ==
    IF lcResp[r].err THEN <<>>
    ELSE LET res == ExcludeLocked(Rows(r, lcResp[r].rows), InUse)
         IN  IF res.panic THEN <<>> ELSE DeleteTargets(res.list, cfgRetain)

ExpectedDeletes ==
    IF asgFail \/ dryRun THEN {}
    ELSE UNION { { <<r, TargetsOf(r)[i].name>> : i \in 1..Len(TargetsOf(r)) } : r \in Regions }

RotationEnded == rotStatus \in {"ok", "error", "panic"}

\* C12: whatever the interleaving of the per-region tasks, a rotation whose
\* delete calls all succeed ends having deleted one and the same set, the
\* one determined by the single read of the groups and by each region's
\* list.
C12_DeletedSetIsInterleavingFree ==
    (RotationEnded /\ deleteFailed = {}) => deleteCalls = ExpectedDeletes

\* the launch configurations of the class that region r holds and no group uses
Unused(r) ==
    { k \in 1..Len(lcs[r]) : lcs[r][k].name \in ClassNames /\ lcs[r][k].name \notin InUse }

\* C16: for a class with Retain at least 1, after a successful call of
\* CreateLaunchConfigurations that is not a dry run, no region holds more
\* than Retain launch configurations of the class that are not in use.
C16_RetainBoundsTheUnused ==
    (cpc = "returned" /\ cret = "ok" /\ ~dryRun /\ cfgRetain >= 1)
        => \A r \in Regions : Cardinality(Unused(r)) <= cfgRetain

\* C18: if the listing of the auto-scaling groups fails in at least one
\* region, RotateLaunchConfigurations returns an error without looking up
\* any launch configuration and deletes nothing.
C18_FailedListingStopsTheRotation ==
    (\E r \in Regions : getResp[r].err)
        => /\ rotStatus \in {"listing", "called", "error"}
           /\ \A r \in Regions : rpc[r] = "idle"
           /\ deleteCalls = {}

\* one region failed to list, the other listed; the rotation, which had
\* configurations to delete, has returned its error
C18_Witness ==
    /\ getResp[RegionList[1]].err
    /\ ~getResp[RegionList[2]].err
    /\ cfgRetain = 0
    /\ ~lcResp[RegionList[1]].err
    /\ Len(lcResp[RegionList[1]].rows) > 0
    /\ rotStatus = "error"

\* the rows region r's lookup gave its task
Looked(r) == IF lcResp[r].err THEN <<>> ELSE Rows(r, lcResp[r].rows)

\* C22: the exclusion step completes without an index-out-of-range fault and
\* leaves exactly the not-in-use entries of the list, each once and in the
\* list's order, for every list and every set of in-use names.
C22_ExclusionRemovesExactlyTheInUse ==
    /\ rotStatus # "panic"
    /\ \A r \in Regions :
          rpc[r] \in {"delete", "done"}
              => launchConfigs[r]
                   = SelectSeq(Looked(r), LAMBDA lc : lc.name \notin excludedConfigs)

\* C23: RotateLaunchConfigurations returns an error whenever a delete call
\* it issued failed: a rotation in which a deletion failed is not reported
\* as a success.
C23_FailedDeleteIsReported ==
    (rotStatus \in {"ok", "error"} /\ deleteFailed # {}) => rotStatus = "error"

\* the task of region r has gone past its append to the shared error list
PastAppend(r) == rpc[r] \in {"exclude", "delete", "done"}

\* C24: RotateLaunchConfigurations returns an error whenever the lookup
\* failed in at least one region, under every interleaving of the tasks'
\* unsynchronised appends: once a task has appended, the error list is
\* never empty again.
C24_FailedLookupIsReported ==
    /\ (\E r \in Regions : lcResp[r].err /\ rotStatus \in {"running", "ok", "error"}
                               /\ PastAppend(r))
          => errs # <<>>
    /\ (~asgFail /\ rotStatus \in {"ok", "error"} /\ \E r \in Regions : lcResp[r].err)
          => rotStatus = "error"

\* the lookup failed in both regions, one of the two appends was lost, and
\* the rotation has returned its error
C24_Witness ==
    /\ \A r \in Regions : lcResp[r].err
    /\ Len(errs) = 1
    /\ rotStatus = "error"
    /\ ~asgFail

-----------------------------------------------------------------------------
(* Claims about the operations (SpecOps, SpecCalls) *)

\* the positions in calls of the calls to one of apis
Issued(apis) == { i \in 1..Len(calls) : calls[i].api \in apis }

DryRunKinds ==
    {"CreateAutoScaleGroups", "UpdateAutoScaleGroups", "DeleteAutoScaleGroups",
     "SuspendProcesses", "ResumeProcesses", "CreateAutoScaleAlarms"}

GroupChanges ==
    {"CreateAutoScalingGroup", "UpdateAutoScalingGroup", "DeleteAutoScalingGroup",
     "CreateOrUpdateTags", "PutMetricAlarm", "SuspendProcesses", "ResumeProcesses"}

\* C5: with dryRun set, CreateAutoScaleGroups, UpdateAutoScaleGroups,
\* DeleteAutoScaleGroups, SuspendProcesses, ResumeProcesses and
\* CreateAutoScaleAlarms never create, update or delete a group, update its
\* tags, put a metric alarm, or suspend or resume its processes, whatever
\* list is matched and whether or not the class has alarms.
C5_DryRunIssuesNoGroupChange ==
    (dryRun /\ opKind \in DryRunKinds) => Issued(GroupChanges) = {}

\* a dry run of UpdateAutoScaleGroups over two groups of a class with zones
\* and an alarm, gone through to the end
C5_Witness ==
    /\ dryRun
    /\ opKind = "UpdateAutoScaleGroups"
    /\ classHasAlarm
    /\ classRegions # {}
    /\ Len(opList) = 2
    /\ opc = "returned"
    /\ opRet = "ok"

\* the operation is one that asks before it changes anything
Prompts ==
    /\ opKind \in OpKinds \ {"CreateAutoScaleGroups"}
    /\ ~(opKind = "UpdateAutoScaleGroups" /\ opForce)

\* C6: an operation that prompts has consulted the prompt, and got a yes,
\* before its first mutating call; when the user declines it returns
\* "Aborting!" and has issued no call.
C6_PromptBeforeAnyCall ==
    Prompts =>
        /\ calls # <<>> => (prompted /\ answer)
        /\ (prompted /\ ~answer) =>
               (opc = "returned" /\ opRet = "Aborting!" /\ calls = <<>>)

\* a declined operation that would have issued calls
C6_Witness ==
    /\ Prompts
    /\ ~dryRun
    /\ prompted
    /\ ~answer
    /\ opRet = "Aborting!"

\* C7 as stated: with forceYes of UpdateAutoScaleGroups or force of
\* DeleteAutoScaleGroups set, the prompt is not consulted and cannot abort.
C7_ForceSkipsPrompt ==
    (opForce /\ opKind \in {"UpdateAutoScaleGroups", "DeleteAutoScaleGroups"})
        => (~prompted /\ opRet # "Aborting!")

\* C7 amended: forceYes of UpdateAutoScaleGroups skips the prompt, so the
\* answer cannot abort the update; force of DeleteAutoScaleGroups does not:
\* the prompt is still consulted before any delete and a no aborts it, and
\* force is passed on as the ForceDelete parameter of every delete call.
C7_ForceYesSkipsPromptForceIsForceDelete ==
    /\ (opKind = "UpdateAutoScaleGroups" /\ opForce)
           => (~prompted /\ opRet # "Aborting!")
    /\ opKind = "DeleteAutoScaleGroups"
           => /\ calls # <<>> => (prompted /\ answer)
              /\ (opc = "run" \/ opRet \in {"ok", "CallError"}) => prompted
              /\ \A i \in 1..Len(calls) : calls[i].arg = opForce

\* an update with forceYes that went through although the answer would be no
C7_Witness ==
    /\ opKind = "UpdateAutoScaleGroups"
    /\ opForce
    /\ ~answer
    /\ ~dryRun
    /\ calls # <<>>
    /\ opRet = "ok"

MainApi(kind) ==
    CASE kind = "DeleteLaunchConfigurations" -> "DeleteLaunchConfiguration"
      [] kind = "DeleteAutoScaleGroups" -> "DeleteAutoScalingGroup"
      [] kind = "UpdateAutoScaleGroups" -> "UpdateAutoScalingGroup"
      [] kind = "DeleteAddresses" -> "ReleaseAddress"
      [] kind = "CreateAutoScaleGroups" -> "CreateAutoScalingGroup"
      [] OTHER -> "none"

\* the positions in calls of the operation's call for resource x
CallsFor(x) ==
    { j \in Issued({MainApi(opKind)}) :
        calls[j].region = x.region /\ calls[j].name = x.name }

\* C8: a confirmed operation that is not a dry run and ends well has issued
\* exactly one create, update or delete call for each resource of its list,
\* in that resource's region, and none for anything else; in particular
\* UpdateAutoScaleGroups one UpdateAutoScalingGroup per matched group.
C8_OneCallPerResourceInItsRegion ==
    (/\ MainApi(opKind) # "none"
     /\ ~dryRun
     /\ opc = "returned"
     /\ opRet = "ok")
        => /\ \A i \in 1..Len(opList) : Cardinality(CallsFor(opList[i])) = 1
           /\ \A j \in Issued({MainApi(opKind)}) :
                  \E i \in 1..Len(opList) : j \in CallsFor(opList[i])

\* the operations whose failing mutating call the caller sees unwrapped
UnwrappingKinds ==
    {"CreateAutoScaleGroups", "UpdateAutoScaleGroups", "DeleteAutoScaleGroups",
     "DeleteLaunchConfigurations", "SuspendProcesses", "ResumeProcesses"}

\* C13: when a mutating call fails in CreateLaunchConfigurations,
\* CreateAutoScaleGroups, updateAutoScaleGroups, deleteAutoScaleGroups,
\* DeleteLaunchConfigurations, SuspendProcesses or ResumeProcesses, the
\* caller gets a new error made of exactly the provider's message when the
\* failure is provider-typed, and the failure's own error value otherwise.
C13_ErrorIsUnwrapped ==
    (\/ cret = "CreateError"
     \/ opRet = "CallError" /\ opKind \in UnwrappingKinds)
        => retErr = IF callErr.type = "awserr"
                    THEN [type |-> "errors.New", code |-> "", msg |-> callErr.msg]
                    ELSE callErr

\* a provider-typed failure of a suspend call, after an earlier one went through
C13_Witness ==
    /\ opKind = "SuspendProcesses"
    /\ opRet = "CallError"
    /\ callErr = AwsError
    /\ Len(calls) = 2

\* the operations that are one loop with one call per resource
LoopKinds ==
    {"DeleteLaunchConfigurations", "DeleteAutoScaleGroups", "SuspendProcesses",
     "ResumeProcesses", "DeleteAddresses"}

\* how many resources of the list have had their call issued
Reached == IF opRet = "CallError" THEN oidx ELSE oidx - 1

\* the positions of the list a call for name can belong to, among those reached
PlacesOf(name) == { i \in 1..Len(opList) : i <= oidx /\ opList[i].name = name }

\* the regions CreateLaunchConfigurations has issued this version's call in
CreatedIn ==
    { c[1] : c \in { d \in createCalls : d[2] = LaunchConfigurationName(Class, cfgVersion) } }

\* C14: the per-resource loops take the resources in list order and stop at
\* the first failing call: the calls issued are those of a prefix of the
\* list, in order, the failing one last, none for a later resource; what
\* the earlier calls did stays done.
C14_LoopsStopAtFirstFailure ==
    /\ (opKind \in LoopKinds /\ (~dryRun \/ opKind = "DeleteAddresses"))
          => /\ Len(calls) = Reached
             /\ \A j \in 1..Len(calls) :
                    calls[j].region = opList[j].region /\ calls[j].name = opList[j].name
    /\ opKind = "UpdateAutoScaleGroups"
          => /\ \A j \in 1..Len(calls) : PlacesOf(calls[j].name) # {}
             /\ \A j, k \in 1..Len(calls) :
                    j < k => \E a \in PlacesOf(calls[j].name), b \in PlacesOf(calls[k].name) : a <= b
    /\ (cpc = "regions" \/ cret \in {"CreateError", "LookupError", "NotValid"})
          => /\ CreatedIn = { cfgRegions[i] : i \in 1..(IF cret = "CreateError" THEN cidx ELSE cidx - 1) }
             /\ \A i \in 1..(cidx - 1) :
                    \E k \in 1..Len(lcs[cfgRegions[i]]) :
                        lcs[cfgRegions[i]][k].name = LaunchConfigurationName(Class, cfgVersion)

\* the first of two deletes failed: one call, none for the second resource
C14_Witness ==
    /\ opKind = "DeleteAutoScaleGroups"
    /\ opRet = "CallError"
    /\ Len(opList) = 2
    /\ oidx = 1
    /\ Len(calls) = 1

-----------------------------------------------------------------------------
(* Claims about the search filter (SpecFilter) *)

\* the regex matches the value of at least one string-typed field of the row
MatchesAStringField(term, row) ==
    \E k \in 1..Len(Fields(row)) :
        Fields(row)[k].kind = "string" /\ MatchString(term, Fields(row)[k].val)

\* C15: with a search term the reader appends exactly the rows of which at
\* least one string-typed field matches, each once and in the cloud's
\* order; without one it appends every row.
C15_AppendsIffAStringFieldMatches ==
    fpc = "done" =>
        fOut = IF fSearch = <<>> THEN fRows
               ELSE SelectSeq(fRows, LAMBDA row : MatchesAStringField(fSearch, row))

-----------------------------------------------------------------------------
(* Claims about the class operations (SpecClassOps) *)

\* region r holds a launch configuration of that name
Holds(r, lcName) == \E k \in 1..Len(lcs[r]) : lcs[r][k].name = lcName

\* C17: CreateAutoScaleGroups and updateAutoScaleGroups issue no create or
\* update call for a region that does not hold the launch configuration
\* class-vN they are to use: for such a region GetLaunchConfigurationName
\* gives "" and the operation returns the "is not available" error.
C17_NoCallWithoutTheLaunchConfiguration ==
    \A j \in Issued({"CreateAutoScalingGroup", "UpdateAutoScalingGroup"}) :
        Holds(calls[j].region, calls[j].arg)


UpdateRequests == Issued({"UpdateAutoScalingGroup"})

\* C19: every update request of UpdateAutoScaleGroups names the launch
\* configuration class-v<version> when a version argument is given (the
\* integer the argument denotes) and the class's stored version when the
\* argument is empty; when the argument is not an integer an error is
\* returned and no update call is issued.
C19_UpdateNamesTheVersionAsked ==
    opKind = "UpdateAutoScaleGroups" =>
        /\ opVersion = <<>>
              => \A j \in UpdateRequests : calls[j].arg = Class \o "-v" \o ToString(StoredVersion)
        /\ opVersion \in { <<"2">>, <<"0", "2">> }
              => \A j \in UpdateRequests : calls[j].arg = Class \o "-v2"
        /\ opVersion \in { <<"x">>, <<"2", "x">> }
              => /\ UpdateRequests = {}
                 /\ opc = "returned" => opRet # "ok"

\* version "02" was asked for, two groups were matched and the update went
\* through for both
C19_Witness ==
    /\ opKind = "UpdateAutoScaleGroups"
    /\ opVersion = <<"0", "2">>
    /\ ~dryRun
    /\ Len(opList) = 2
    /\ Cardinality(UpdateRequests) >= 2
    /\ opc = "returned"
    /\ opRet = "ok"


-----------------------------------------------------------------------------
(* Claims about the operations with their listing (SpecSearchOps) *)

\* no row of the regions the operation lists has a string-typed field that
\* the search term matches
NoResourceMatches ==
    \A r \in ListedRegions(opRegion) : \A k \in 1..Len(fCloud[r]) :
        ~MatchesAStringField(fSearch, fCloud[r][k])

\* C20: when the search (and optional region) matches no resource, the
\* operation returns the "not found" error without prompting and without
\* any mutating call; when a region is given, only resources of that region
\* are listed and affected.
C20_NoMatchNoPromptNoCall ==
    /\ NoResourceMatches
          => /\ ~prompted
             /\ calls = <<>>
             /\ opc = "returned" => opRet = "NotFound"
    /\ (opRegion # "" /\ opKind \in RegionKinds)
          => /\ \A i \in 1..Len(opList) : opList[i].region = opRegion
             /\ \A j \in 1..Len(calls) : calls[j].region = opRegion


-----------------------------------------------------------------------------
(* Claims about CreateAddress (SpecAddress) *)

\* C21: for a valid region CreateAddress returns the "Domain should be
\* either [vpc] or [classic]." error and issues no AllocateAddress call if
\* and only if the domain is neither "vpc" nor "classic".
C21_DomainErrorIffNeitherVpcNorClassic ==
    (opKind = "CreateAddress" /\ opRegion \in Regions /\ opc = "returned")
        => ((opRet = "DomainError" /\ calls = <<>>) <=> opDomain \notin {"vpc", "classic"})

====
